---- MODULE Spec2Model ----
(***************************************************************************)
(* Verification model of the web-chat-game browser client:                 *)
(*   - the reconnecting transport GameWS          (web/static/ws.js)       *)
(*   - the V5 BattleScene state reconciler and animation sequencer         *)
(*                                     (web/static/scenes/BattleScene.js)  *)
(*   - the two together: frames of the connection published to the scene   *)
(* JavaScript runs one callback at a time, so every action below is one    *)
(* whole callback (a socket event, a timer, a tween completion, a public   *)
(* API call) including everything it calls synchronously.                  *)
(***************************************************************************)
EXTENDS Integers, Sequences, FiniteSets, TLC

(***************************************************************************)
(* Bounds of the model (not program constants).                            *)
(***************************************************************************)
MaxStale == 1
MaxScheds == 5
MaxBubbles == 2
MaxCmds == 3
MaxPlays == 2
MaxGameOvers == 1
MaxNow == 5
MaxSends == 2
MaxListeners == 2

\* the clock when the page has loaded, in seconds
NowStart == MaxNow - 1

NULL == "null"

(***************************************************************************)
(* JavaScript values.  An optional value (a field that may be undefined or *)
(* null) is a sequence of length 0 or 1; an object used as a map is a      *)
(* function.                                                               *)
(***************************************************************************)
None == <<>>
Some(v) == <<v>>

\* {}
EmptyMap == [i \in {} |-> 0]
\* delete obj[k]
Without(f, k) == [i \in (DOMAIN f) \ {k} |-> f[i]]
\* obj[k] = v
With(f, k, v) == [i \in (DOMAIN f) \cup {k} |-> IF i = k THEN v ELSE f[i]]

VARIABLES
  \* ---- GameWS (ws.js) ----
  _ws,              \* readyState of the current socket, NULL before connect()
  stale,            \* superseded sockets whose close event is still to come
  _reconnectTimer,  \* handle of the pending reconnect timer, 0 when null
  timers,           \* outstanding setTimeout timers: [id, delay]
  _reconnectDelay,
  _connected,
  _listeners,       \* event type -> the callbacks subscribed, in order
  sent,             \* what was handed to WebSocket.send, in order
  \* ---- observation of the transport (history, not program state) ----
  wsOp,             \* the callback that ran last
  wsEvents,         \* events it published with _emit, in order: [type, data]
  wsCalls,          \* callbacks _emit called, in order: [callback, type, data]
  wsThrew,          \* it ended with an exception nothing caught
  sendCalls,        \* calls of send() so far
  lastSched,        \* the reconnect scheduled last: [delay, k, afterOpen, noOpen]
  schedCount,       \* reconnects scheduled since the last open (saturating)
  openedFresh,      \* a socket opened and no reconnect was scheduled since
  everOpened,       \* some socket has opened since the page loaded
  schedNoop         \* the last _scheduleReconnect call found a timer pending

wsVars == <<_ws, stale, _reconnectTimer, timers, _reconnectDelay, _connected,
            _listeners, sent, wsOp, wsEvents, wsCalls, wsThrew, sendCalls,
            lastSched,
            schedCount, openedFresh, everOpened, schedNoop>>

(***************************************************************************)
(* GameWS: module state and pure helpers.                                  *)
(***************************************************************************)
InitialReconnectDelay == 1000
_maxReconnectDelay == 8000

Min(a, b) == IF a <= b THEN a ELSE b
Max(a, b) == IF a >= b THEN a ELSE b

RECURSIVE Pow2(_)
Pow2(n) == IF n = 0 THEN 1 ELSE 2 * Pow2(n - 1)

\* The transport's state as one value, so that a callback is a function on it.
WS == [ws |-> _ws, stale |-> stale, timer |-> _reconnectTimer, timers |-> timers,
       delay |-> _reconnectDelay, connected |-> _connected, events |-> <<>>,
       calls |-> <<>>,
       listeners |-> _listeners, sent |-> sent, threw |-> FALSE,
       sendCalls |-> sendCalls,
       lastSched |-> lastSched, schedCount |-> schedCount,
       openedFresh |-> openedFresh, everOpened |-> everOpened,
       schedNoop |-> schedNoop]

\* setTimeout returns a fresh positive handle.
FreshTimerId(t) == CHOOSE i \in 1..(Cardinality(t.timers) + 1) :
                      \A x \in t.timers : x.id # i

_updateStatus(t, c) == [t EXCEPT !.connected = c]

\* arr.splice(idx, 1) with idx the index of an element of arr
Splice(arr, idx) == SubSeq(arr, 1, idx - 1) \o SubSeq(arr, idx + 1, Len(arr))

\* arr.indexOf(callback), from 1; 0 when absent
IndexOf(arr, callback) ==
  IF \E i \in DOMAIN arr : arr[i] = callback
  THEN CHOOSE i \in DOMAIN arr :
         arr[i] = callback /\ \A j \in 1..(i - 1) : arr[j] # callback
  ELSE 0

\* off(eventType, callback): the first occurrence is spliced out of the array
off(t, eventType, callback) ==
  IF eventType \notin DOMAIN t.listeners THEN t
  ELSE LET idx == IndexOf(t.listeners[eventType], callback) IN
       IF idx = 0 THEN t
       ELSE [t EXCEPT !.listeners[eventType] = Splice(@, idx)]

\* The callbacks a page script subscribes in the model.  Callbacks are named;
\* the one named "unsubscribesItself" is
\*   function cb() { GameWS.off(eventType, cb); }
\* and the others leave the transport alone.
PageCallbacks == {"cbA", "cbB", "unsubscribesItself"}

\* arr[i](data): the call is recorded, and what the callback does to the
\* transport is done
Invoke(t, eventType, callback, data) ==
  LET t1 == [t EXCEPT !.calls = Append(@, [callback |-> callback,
                                           type |-> eventType, data |-> data])]
  IN IF callback = "unsubscribesItself" THEN off(t1, eventType, callback) ELSE t1

\* "for (var i = 0; i < arr.length; i++) arr[i](data)": arr is the array
\* itself, read again at every turn of the loop (i counts from 1 here)
RECURSIVE EmitLoop(_, _, _, _)
EmitLoop(t, eventType, data, i) ==
  IF i > Len(t.listeners[eventType]) THEN t
  ELSE EmitLoop(Invoke(t, eventType, t.listeners[eventType][i], data),
                eventType, data, i + 1)

\* _emit(eventType, data): the callbacks of _listeners[eventType] are called
\* with data; data is an option (null for 'open' and 'close')
_emit(t, eventType, data) ==
  LET t1 == [t EXCEPT !.events = Append(@, [type |-> eventType, data |-> data])]
  IN IF eventType \notin DOMAIN t.listeners THEN t1
     ELSE EmitLoop(t1, eventType, data, 1)

\* Mutant: a call that finds a live socket cancels the pending reconnect.
connect_cancelsTimer(t) ==
  IF t.ws \in {"OPEN", "CONNECTING"} THEN [t EXCEPT !.timer = 0, !.timers = {}]
  ELSE [t EXCEPT !.ws = "CONNECTING",
                 !.stale = IF t.ws = "CLOSING" THEN @ + 1 ELSE @]

\* connect(): no-op while the current socket is OPEN or CONNECTING, otherwise
\* a new WebSocket replaces _ws.  The replaced socket is never closed by the
\* client; if it was CLOSING its close event is still to come.
connect(t) ==
  IF t.ws \in {"OPEN", "CONNECTING"} THEN t
  ELSE [t EXCEPT !.ws = "CONNECTING",
                 !.stale = IF t.ws = "CLOSING" THEN @ + 1 ELSE @]

\* Mutant: the pending-timer guard is missing.
_scheduleReconnect_unguarded(t) ==
  LET id == FreshTimerId(t) IN
  [t EXCEPT !.timer = id,
            !.timers = @ \cup {[id |-> id, delay |-> t.delay]},
            !.schedNoop = FALSE]

\* Mutant: no further reconnect once the delay has reached its maximum.
_scheduleReconnect_givesUp(t) ==
  IF t.timer # 0 \/ t.delay >= 8000 THEN t
  ELSE LET id == FreshTimerId(t) IN
       [t EXCEPT !.timer = id,
                 !.timers = @ \cup {[id |-> id, delay |-> t.delay]}]

\* _scheduleReconnect(): at most one timer.
_scheduleReconnect(t) ==
  IF t.timer # 0 THEN [t EXCEPT !.schedNoop = TRUE]
  ELSE LET id == FreshTimerId(t) IN
       [t EXCEPT !.timer = id,
                 !.schedNoop = FALSE,
                 !.timers = @ \cup {[id |-> id, delay |-> t.delay]},
                 !.lastSched = [delay |-> t.delay, k |-> t.schedCount,
                                afterOpen |-> t.openedFresh,
                                noOpen |-> ~t.everOpened],
                 !.schedCount = Min(@ + 1, MaxScheds),
                 !.openedFresh = FALSE]

\* _ws.onopen
onopen(t) ==
  _emit(_updateStatus([t EXCEPT !.delay = InitialReconnectDelay,
                                !.schedCount = 0,
                                !.openedFresh = TRUE,
                                !.everOpened = TRUE], TRUE), "open", <<>>)

\* Mutant: the error handler publishes 'close' as well.
onerror_emitsClose(t) == _emit(_updateStatus(t, FALSE), "close", <<>>)

\* _ws.onerror
onerror(t) == _updateStatus(t, FALSE)

\* _ws.onclose
onclose(t) == _scheduleReconnect(_emit(_updateStatus(t, FALSE), "close", <<>>))

\* Mutant: the delay grows by the initial delay instead of doubling.
reconnectTimerCallback_linear(t) ==
  LET t1 == connect([t EXCEPT !.timer = 0]) IN
  [t1 EXCEPT !.delay = Min(t1.delay + 1000, 8000)]

\* Mutant: the doubling is not capped.
reconnectTimerCallback_uncapped(t) ==
  LET t1 == connect([t EXCEPT !.timer = 0]) IN
  [t1 EXCEPT !.delay = t1.delay * 2]

\* the setTimeout callback of _scheduleReconnect
reconnectTimerCallback(t) ==
  LET t1 == connect([t EXCEPT !.timer = 0]) IN
  [t1 EXCEPT !.delay = Min(t1.delay * 2, _maxReconnectDelay)]

\* A text frame as JSON.parse sees it:
\*   "garbage"  not JSON: JSON.parse throws
\*   "null"     the JSON text null
\*   "scalar"   a JSON number, string or boolean
\*   "object"   a JSON object; type and data are its members, if present
Frame(kind, type, data) == [kind |-> kind, type |-> type, data |-> data]

\* _ws.onmessage
onmessage(t, f) ==
  IF f.kind = "garbage" THEN t                       \* catch (e) { return; }
  ELSE IF f.kind = "null" THEN [t EXCEPT !.threw = TRUE]  \* null.type: TypeError
  ELSE
    LET type == IF f.kind = "object" THEN f.type ELSE None
        data == IF f.kind = "object" THEN f.data ELSE None
    IN IF type = Some("state_update") THEN _emit(t, "state_update", data)
       ELSE IF type = Some("combat_log") THEN _emit(t, "combat_log", data)
       ELSE IF type = Some("game_over") THEN _emit(t, "game_over", data)
       ELSE t          \* 'game_control' changes the page only; no other branch

\* Mutant: the frame is handed to the socket whatever its state.
send_unguarded(t, obj) ==
  [t EXCEPT !.sent = Append(@, obj), !.sendCalls = @ + 1]

\* send(obj)
send(t, obj) ==
  IF t.ws = "OPEN"
  THEN [t EXCEPT !.sent = Append(@, obj), !.sendCalls = @ + 1]
  ELSE [t EXCEPT !.sendCalls = @ + 1]

\* on(eventType, callback)
on(t, eventType, callback) ==
  [t EXCEPT !.listeners =
     With(@, eventType,
          Append(IF eventType \in DOMAIN @ THEN @[eventType] ELSE <<>>, callback))]

(***************************************************************************)
(* GameWS: actions.                                                        *)
(***************************************************************************)
SetWS(t, op) ==
  /\ _ws' = t.ws
  /\ stale' = t.stale
  /\ _reconnectTimer' = t.timer
  /\ timers' = t.timers
  /\ _reconnectDelay' = t.delay
  /\ _connected' = t.connected
  /\ wsEvents' = t.events
  /\ wsCalls' = t.calls
  /\ wsThrew' = t.threw
  /\ _listeners' = t.listeners
  /\ sent' = t.sent
  /\ sendCalls' = t.sendCalls
  /\ lastSched' = t.lastSched
  /\ schedCount' = t.schedCount
  /\ openedFresh' = t.openedFresh
  /\ everOpened' = t.everOpened
  /\ schedNoop' = t.schedNoop
  /\ wsOp' = op

InitWS ==
  /\ _ws = NULL
  /\ stale = 0
  /\ _reconnectTimer = 0
  /\ timers = {}
  /\ _reconnectDelay = InitialReconnectDelay
  /\ _connected = FALSE
  /\ wsOp = "init"
  /\ wsEvents = <<>>
  /\ wsCalls = <<>>
  /\ wsThrew = FALSE
  /\ _listeners = EmptyMap
  /\ sent = <<>>
  /\ sendCalls = 0
  /\ lastSched = [delay |-> 0, k |-> 0, afterOpen |-> FALSE, noOpen |-> FALSE]
  /\ schedCount = 0
  /\ openedFresh = FALSE
  /\ everOpened = FALSE
  /\ schedNoop = FALSE

\* the callbacks that end with the close handler of a socket
CloseOps == {"close", "error_close"}

\* GameWS.connect() called by a scene (BattleScene.create) or any other script;
\* the call is seen to have found a live socket or not.
Connect ==
  SetWS(connect(WS), IF _ws \in {"OPEN", "CONNECTING"} THEN "connect_live"
                     ELSE "connect")

\* GameWS.on(eventType, callback) called by a page script
On(eventType, callback) ==
  /\ eventType \in DOMAIN _listeners => Len(_listeners[eventType]) < MaxListeners
  /\ SetWS(on(WS, eventType, callback), "on")

\* GameWS.off(eventType, callback) called by a page script
Off(eventType, callback) == SetWS(off(WS, eventType, callback), "off")

\* The handshake of the current socket succeeds.
SocketOpen ==
  /\ _ws = "CONNECTING"
  /\ SetWS(onopen([WS EXCEPT !.ws = "OPEN"]), "open")

\* The peer starts the closing handshake: readyState becomes CLOSING.
SocketClosing ==
  /\ _ws = "OPEN"
  /\ stale < MaxStale
  /\ SetWS([WS EXCEPT !.ws = "CLOSING"], "closing")

\* The current socket is closed (readyState CLOSED, then the close event); a
\* failed connection fires the error event first, in the same task.
SocketClose(withError) ==
  /\ _ws \in {"CONNECTING", "OPEN", "CLOSING"}
  /\ LET t0 == [WS EXCEPT !.ws = "CLOSED"]
         t1 == IF withError THEN onerror(t0) ELSE t0
     IN SetWS(onclose(t1), IF withError THEN "error_close" ELSE "close")

\* A superseded socket finishes closing; its handlers are the same closures.
StaleClose ==
  /\ stale > 0
  /\ SetWS(onclose([WS EXCEPT !.stale = @ - 1]), "close")

\* sendGodCommand(text) called by the page; the texts are numbered.
Send ==
  /\ sendCalls < MaxSends
  /\ SetWS(send(WS, [type |-> "god_command", content |-> sendCalls + 1]), "send")

\* A reconnect timer expires.
TimerFires ==
  \E tm \in timers :
    SetWS(reconnectTimerCallback([WS EXCEPT !.timers = @ \ {tm}]), "timer")

(***************************************************************************)
(* BattleScene (V5): data.                                                 *)
(***************************************************************************)

\* Entity ids of the model.  Characters are keyed by role, adds are named
\* add_<n> by the server; 'add_' prefix tests are IsAddId.
CharIds == {"tank", "healer"}
AddIds == {"add_0", "add_1"}
Ids == {"boss"} \cup CharIds \cup AddIds

\* id.indexOf('add_') === 0
IsAddId(id) == id \in AddIds

\* parseInt(id.replace(/\D/g, ''), 10) || 0
AddIdx(id) == IF id = "add_1" THEN 1 ELSE 0

\* An entity description inside a snapshot (boss, character or add).
Info(id, role, hp, maxHp, alive) ==
  [id |-> id, role |-> role, type |-> None, name |-> None,
   hp |-> hp, max_hp |-> maxHp, alive |-> alive, casting |-> None,
   current_target |-> None, adds |-> None]

Casting(skill, remaining) == [skill_name |-> skill, remaining |-> Some(remaining)]

\* a casting object without the member remaining
CastingNoRemaining(skill) == [skill_name |-> skill, remaining |-> None]

\* null where the description of an entity is expected
NullEntry == [null |-> TRUE]
IsNull(info) == DOMAIN info = {"null"}

AiEntry(isBoss, role, time, skill, target) ==
  [is_boss |-> isBoss, role |-> role,
   last_response |-> Some([time |-> time, skill_name |-> skill,
                           tool_name |-> None, target |-> target])]

EmptySnapshot ==
  [boss |-> None, boss_card |-> None, characters |-> None, adds |-> None,
   ai_log |-> None]

Add(id, alive, hp) ==
  [Info(Some(id), None, Some(hp), Some(40), Some(alive)) EXCEPT !.type = Some("minion")]

Tank(hp, alive) == Info(Some("tank"), Some("tank"), Some(hp), Some(100), Some(alive))
Healer(hp) == Info(Some("healer"), Some("healer"), Some(hp), Some(80), Some(TRUE))
Boss(hp) == Info(None, None, Some(hp), Some(100), Some(TRUE))

\* The name of the boss skill with the long cast bar ('灭世之炎' in the source).
LongCastSkill == "inferno"

\* The snapshots the server sends in the model.
SnapFull ==
  [EmptySnapshot EXCEPT
     !.boss = Some([Boss(100) EXCEPT
                      !.current_target = Some("tank"),
                      !.adds = Some(<<Add("add_0", TRUE, 40), Add("add_1", TRUE, 40)>>)]),
     !.characters = Some([c \in {"tank", "healer"} |->
                            IF c = "tank" THEN Tank(100, TRUE) ELSE Healer(40)])]

SnapAddDies ==
  [EmptySnapshot EXCEPT
     !.boss = Some([Boss(50) EXCEPT
                      !.current_target = Some("healer"),
                      !.adds = Some(<<Add("add_0", TRUE, 20), Add("add_1", FALSE, 0)>>)]),
     !.characters = Some([c \in {"tank"} |-> Tank(0, FALSE)])]

SnapNoBoss ==
  [EmptySnapshot EXCEPT
     !.characters = Some([c \in {"tank"} |->
                            [Tank(50, TRUE) EXCEPT !.casting = Some(Casting("taunt", 1))]]),
     !.adds = Some(<<Add("add_1", TRUE, 40)>>)]

SnapCasting ==
  [EmptySnapshot EXCEPT
     !.boss = Some([Boss(100) EXCEPT !.adds = Some(<<Add("add_0", TRUE, 40)>>)]),
     !.boss_card = Some([casting |-> Some(Casting(LongCastSkill, 5))]),
     !.adds = Some(<<Add("add_0", TRUE, 40)>>),
     !.ai_log = Some(<<AiEntry(TRUE, None, 1, Some("fireball"), Some("tank")),
                       AiEntry(FALSE, Some("tank"), 1, None, None)>>)]

SnapAiOnly ==
  [EmptySnapshot EXCEPT
     !.boss_card = Some([casting |-> Some(Casting("slam", 1))]),
     !.ai_log = Some(<<AiEntry(FALSE, Some("healer"), 2, Some("heal"), Some("tank")),
                       AiEntry(FALSE, Some("healer"), 2, Some("shield"), None)>>)]

\* {boss: {hp: 100, max_hp: 100}}
SnapBossOnly ==
  [EmptySnapshot EXCEPT !.boss = Some(Info(None, None, Some(100), Some(100), None))]

\* Snapshots in which something the scene expects is missing: a null
\* character entry, a casting object without remaining, entities without hp,
\* max_hp and role.
SnapNullCharacter ==
  [EmptySnapshot EXCEPT
     !.boss = Some(Boss(100)),
     !.characters = Some([c \in {"tank", "healer"} |->
                            IF c = "tank" THEN Tank(100, TRUE) ELSE NullEntry]),
     !.adds = Some(<<Add("add_0", TRUE, 40)>>)]

SnapNoRemaining ==
  [EmptySnapshot EXCEPT
     !.boss = Some(Boss(100)),
     !.boss_card = Some([casting |-> Some(CastingNoRemaining("slam"))]),
     !.adds = Some(<<Add("add_1", TRUE, 40)>>)]

SnapBare ==
  [EmptySnapshot EXCEPT
     !.boss = Some(Info(None, None, None, None, None)),
     !.characters = Some([c \in {"healer"} |-> Info(None, None, None, None, None)])]

MalformedSnapshots == {SnapNullCharacter, SnapNoRemaining, SnapBare}

Snapshots ==
  {SnapFull, SnapAddDies, SnapNoBoss, SnapCasting, SnapAiOnly, EmptySnapshot}

(***************************************************************************)
(* BattleScene (V5): the scene object as one value, and its methods as     *)
(* functions on it.                                                        *)
(***************************************************************************)
VARIABLES
  _entities,        \* id -> sprite
  _hpBars,          \* id -> HP bar
  _nameTexts,       \* id -> name label
  _lastState,       \* option: the last non-null snapshot
  _animQueue,       \* sequence of queued animation commands
  _animPlaying,
  _aiBubbles,       \* id -> bubble text object
  _castTexts,       \* id -> cast text label
  _aggroGfx,        \* option: the aggro line drawn
  _castGfx,         \* option: the cast arc drawn
  _gameOverOverlays,\* number of game-over display objects tracked
  \* ---- the engine: tweens in progress, the clock ----
  choreos,          \* choreographies whose tweens are still running
  bubbleTweens,     \* AI-bubble tweens still running: [id, n, stale], stale
                    \* when a reset has run since the tween was started
  now,              \* Date.now() / 1000
  \* ---- observation of the scene (history, not program state) ----
  sceneOp,          \* the handler that ran last and what it was seen to do:
                    \*   [op |-> "state_update", removed, repeated]
                    \*   [op |-> "game_reset", entities, queued, inflight]
                    \*   [op |-> "animation", cmd]
                    \*   [op |-> "tween", type, fired, skipped]
                    \*   [op |-> ...] for the others
  bubbleSeq,        \* bubble objects created so far
  enqCount,         \* animation commands accepted so far
  startLog,         \* commands in the order their choreography was started
  doneLog,          \* commands in the order their completion fired
  doneAtEnq,        \* number of completions fired when each command arrived
  everReset,        \* _onGameReset has run
  lastDmg           \* option: the damage number shown last

sceneVars == <<_entities, _hpBars, _nameTexts, _lastState, _animQueue,
               _animPlaying, _aiBubbles, _castTexts, _aggroGfx, _castGfx,
               _gameOverOverlays, choreos, bubbleTweens, now, sceneOp,
               bubbleSeq, enqCount, startLog, doneLog, doneAtEnq, everReset,
               lastDmg>>

Scene ==
  [entities |-> _entities, hpBars |-> _hpBars, nameTexts |-> _nameTexts,
   lastState |-> _lastState, animQueue |-> _animQueue,
   animPlaying |-> _animPlaying, aiBubbles |-> _aiBubbles,
   castTexts |-> _castTexts, aggroGfx |-> _aggroGfx, castGfx |-> _castGfx,
   gameOverOverlays |-> _gameOverOverlays, choreos |-> choreos,
   bubbleTweens |-> bubbleTweens, now |-> now, bubbleSeq |-> bubbleSeq,
   enqCount |-> enqCount, startLog |-> startLog, doneLog |-> doneLog,
   doneAtEnq |-> doneAtEnq, everReset |-> everReset, lastDmg |-> lastDmg,
   removed |-> {}, threw |-> FALSE]

\* an exception that nothing catches ends the handler
Throw(s) == [s EXCEPT !.threw = TRUE]

\* info.role || info.type
RoleOf(info) == IF info.role # None THEN info.role ELSE info.type

_getTextureKey(role, isBoss) ==
  IF isBoss THEN "boss"
  ELSE IF role # None /\ role[1] \in {"tank", "healer", "mage", "rogue", "hunter", "minion"}
       THEN role[1] ELSE "minion"

_getEntityPosition(id, info, isBoss) ==
  LET role == RoleOf(info) IN
  IF isBoss THEN <<140, 210>>
  ELSE IF role = Some("tank") THEN <<400, 210>>
  ELSE IF role = Some("healer") THEN <<530, 110>>
  ELSE IF role = Some("mage") THEN <<620, 180>>
  ELSE IF role = Some("rogue") THEN <<530, 310>>
  ELSE IF role = Some("hunter") THEN <<620, 260>>
  ELSE IF IsAddId(id) THEN (IF AddIdx(id) = 0 THEN <<60, 120>> ELSE <<200, 100>>)
  ELSE <<400, 210>>

_createHpBar(s, id, pos, isBoss) ==
  LET barW == IF isBoss THEN 60 ELSE 36 IN
  [s EXCEPT !.hpBars = With(@, id, [isBoss |-> isBoss, barW |-> barW,
                                    width |-> barW,
                                    color |-> IF isBoss THEN "red" ELSE "green",
                                    alpha |-> 100])]

_updateHpBar(s, id, info, isBoss) ==
  IF id \notin DOMAIN s.hpBars THEN s
  ELSE
    LET hb == s.hpBars[id]
        maxHp == IF info.max_hp # None /\ info.max_hp[1] # 0 THEN info.max_hp[1] ELSE 1
        hp == IF info.hp # None THEN info.hp[1] ELSE 0
        \* pct = max(0, min(1, hp / maxHp)), kept as the fraction num / maxHp
        num == Max(0, Min(maxHp, hp))
        color == IF isBoss THEN hb.color
                 ELSE IF num * 10 > 6 * maxHp THEN "green"
                 ELSE IF num * 10 > 3 * maxHp THEN "yellow"
                 ELSE "red"
    IN [s EXCEPT !.hpBars[id] =
          [hb EXCEPT !.width = (hb.barW * num) \div maxHp,
                     !.color = color,
                     !.alpha = IF hp <= 0 THEN 30 ELSE 100]]

_updateEntity(s, id, info, isBoss) ==
  IF IsNull(info) THEN Throw(s)           \* info.role of null: TypeError
  ELSE
  LET pos == _getEntityPosition(id, info, isBoss)
      s1 == IF id \in DOMAIN s.entities THEN s
            ELSE _createHpBar(
                   [s EXCEPT
                      !.entities = With(@, id,
                          [texture |-> _getTextureKey(RoleOf(info), isBoss),
                           pos |-> pos, tint |-> "none", alpha |-> 100]),
                      !.nameTexts = With(@, id,
                          IF info.name # None THEN info.name[1] ELSE id)],
                   id, pos, isBoss)
      \* a position change only starts tweens; the sprite moves later
      s2 == _updateHpBar(s1, id, info, isBoss)
      dead == info.hp # None /\ info.hp[1] <= 0 /\ info.alive = Some(FALSE)
  IN [s2 EXCEPT !.entities[id] =
        [@ EXCEPT !.tint = IF dead THEN "grey" ELSE "none",
                  !.alpha = IF dead THEN 50 ELSE 100]]

\* _getEntityPos(entityId); entityId is an option (a command may lack the id)
_getEntityPos(s, entityId) ==
  IF entityId = None THEN None
  ELSE
    LET id == entityId[1] IN
    IF id \in DOMAIN s.entities THEN Some(s.entities[id].pos)
    ELSE IF s.lastState = None THEN None
    ELSE
      LET st == s.lastState[1] IN
      IF id = "boss" /\ st.boss # None THEN Some(<<140, 210>>)
      ELSE IF st.characters = None THEN None
      ELSE
        LET chars == st.characters[1] IN
        IF id \in DOMAIN chars THEN Some(_getEntityPosition(id, chars[id], FALSE))
        ELSE IF \E k \in DOMAIN chars : chars[k].id = Some(id)
             THEN LET k == CHOOSE k \in DOMAIN chars : chars[k].id = Some(id)
                  IN Some(_getEntityPosition(id, chars[k], FALSE))
             ELSE None

_updateAggroLine(s, data) ==
  LET cleared == [s EXCEPT !.aggroGfx = None] IN
  IF data.boss = None \/ data.boss[1].current_target = None THEN cleared
  ELSE
    LET bossPos == _getEntityPos(s, Some("boss"))
        targetPos == _getEntityPos(s, data.boss[1].current_target)
    IN IF bossPos = None \/ targetPos = None THEN cleared
       ELSE [s EXCEPT !.aggroGfx = Some(<<bossPos[1], targetPos[1]>>)]

_updateCastArc(s, data) ==
  LET cleared == [s EXCEPT !.castGfx = None] IN
  IF data.boss_card = None \/ data.boss_card[1].casting = None THEN cleared
  ELSE
    LET bossPos == _getEntityPos(s, Some("boss")) IN
    IF bossPos = None THEN cleared
    ELSE
      LET casting == data.boss_card[1].casting[1]
          totalCast == IF casting.skill_name = LongCastSkill THEN 10 ELSE 2
          \* progress = max(0, 1 - remaining / totalCast), in percent; NaN
          \* (None) when remaining is undefined
          progress == IF casting.remaining = None THEN None
                      ELSE Some(Max(0, 100 - (casting.remaining[1] * 100) \div totalCast))
      IN [s EXCEPT !.castGfx = Some([at |-> bossPos[1], progress |-> progress])]

_hideCastText(s, entityId) ==
  IF entityId \in DOMAIN s.castTexts
  THEN [s EXCEPT !.castTexts = Without(@, entityId)] ELSE s

_showCastText(s, entityId, skillName, remaining, isBoss) ==
  LET pos == _getEntityPos(s, Some(entityId)) IN
  IF pos = None THEN s
  ELSE IF remaining = None THEN Throw(s)  \* undefined.toFixed: TypeError
  ELSE [s EXCEPT !.castTexts = With(@, entityId,
          [label |-> <<skillName, remaining[1]>>,
           at |-> <<pos[1][1], pos[1][2] + (IF isBoss THEN -60 ELSE -42)>>,
           isBoss |-> IF entityId \in DOMAIN s.castTexts
                      THEN s.castTexts[entityId].isBoss ELSE isBoss])]

RECURSIVE CastTextsOfChars(_, _, _)
CastTextsOfChars(s, chars, keys) ==
  IF keys = {} THEN s
  ELSE LET k == CHOOSE k \in keys : TRUE
           c == chars[k]
           s1 == IF c.casting # None
                 THEN _showCastText(s, k, c.casting[1].skill_name,
                                    c.casting[1].remaining, FALSE)
                 ELSE _hideCastText(s, k)
       IN IF s1.threw THEN s1 ELSE CastTextsOfChars(s1, chars, keys \ {k})

_updateAllCastTexts(s, data) ==
  LET s1 == IF data.boss_card # None /\ data.boss_card[1].casting # None
            THEN LET cast == data.boss_card[1].casting[1]
                 IN _showCastText(s, "boss", cast.skill_name, cast.remaining, TRUE)
            ELSE _hideCastText(s, "boss")
  IN IF s1.threw \/ data.characters = None THEN s1
     ELSE CastTextsOfChars(s1, data.characters[1], DOMAIN data.characters[1])

\* _showAiBubble: a new text object, registered under the entity id, and a
\* tween whose completion destroys it and deletes the entry by id.
_showAiBubble(s, entityId, pos, isBoss, displayText) ==
  LET n == s.bubbleSeq + 1 IN
  [s EXCEPT !.bubbleSeq = n,
            !.aiBubbles = With(@, entityId,
                [n |-> n,
                 text |-> IF displayText # <<>> THEN displayText ELSE <<"thought">>,
                 at |-> <<pos[1], pos[2] + (IF isBoss THEN -75 ELSE -55)>>]),
            !.bubbleTweens = @ \cup {[id |-> entityId, n |-> n, stale |-> FALSE]}]

\* Only decisions of the last 3 seconds get a bubble.
BubbleWindow == 3

\* the display text built from entry.last_response (a tuple, empty for '')
BubbleText(resp) ==
  LET skillDisplay == IF resp.skill_name # None THEN resp.skill_name[1]
                      ELSE IF resp.tool_name # None THEN resp.tool_name[1] ELSE ""
  IN IF skillDisplay = "" THEN <<>>
     ELSE IF resp.target # None THEN <<skillDisplay, resp.target[1]>>
     ELSE <<skillDisplay>>

\* Mutant: an entity that already has a bubble gets another one.
AiBubbleEntry_noSkip(s, entry) ==
  IF entry.last_response = None \/ entry.last_response[1].time = 0 THEN s
  ELSE IF s.now - entry.last_response[1].time > BubbleWindow THEN s
  ELSE
    LET entityId == IF entry.is_boss THEN Some("boss") ELSE entry.role IN
    IF entityId = None THEN s
    ELSE
      LET pos == _getEntityPos(s, entityId) IN
      IF pos = None THEN s
      ELSE _showAiBubble(s, entityId[1], pos[1], entry.is_boss,
                         BubbleText(entry.last_response[1]))

\* the body of the loop of _updateAiBubbles, for one ai_log entry
AiBubbleEntry(s, entry) ==
  IF entry.last_response = None \/ entry.last_response[1].time = 0 THEN s
  ELSE IF s.now - entry.last_response[1].time > BubbleWindow THEN s
  ELSE
    LET entityId == IF entry.is_boss THEN Some("boss") ELSE entry.role IN
    IF entityId = None \/ entityId[1] \in DOMAIN s.aiBubbles THEN s
    ELSE
      LET pos == _getEntityPos(s, entityId) IN
      IF pos = None THEN s
      ELSE _showAiBubble(s, entityId[1], pos[1], entry.is_boss,
                         BubbleText(entry.last_response[1]))

RECURSIVE AiBubbleLoop(_, _, _)
AiBubbleLoop(s, log, i) ==
  IF i > Len(log) THEN s ELSE AiBubbleLoop(AiBubbleEntry(s, log[i]), log, i + 1)

_updateAiBubbles(s, data) ==
  IF data.ai_log = None THEN s ELSE AiBubbleLoop(s, data.ai_log[1], 1)

RECURSIVE UpdateCharacters(_, _, _)
UpdateCharacters(s, chars, keys) ==
  IF keys = {} THEN s
  ELSE LET cid == CHOOSE k \in keys : TRUE
           s1 == _updateEntity(s, cid, chars[cid], FALSE)
       IN IF s1.threw THEN s1 ELSE UpdateCharacters(s1, chars, keys \ {cid})

\* (data.boss && data.boss.adds) || data.adds || []
AddsOf(data) ==
  IF data.boss # None /\ data.boss[1].adds # None THEN data.boss[1].adds[1]
  ELSE IF data.adds # None THEN data.adds[1]
  ELSE <<>>

RECURSIVE UpdateAdds(_, _, _)
UpdateAdds(s, adds, j) ==
  IF j > Len(adds) THEN s
  ELSE UpdateAdds(IF adds[j].alive = Some(TRUE)
                  THEN _updateEntity(s, adds[j].id[1], adds[j], FALSE) ELSE s,
                  adds, j + 1)

\* aliveAddIds of _onStateUpdate
AliveAddIds(adds) ==
  {adds[j].id[1] : j \in {i \in 1..Len(adds) : adds[i].alive = Some(TRUE)}}

\* Mutant: dead adds are never removed (as in the scene before V5).
RemoveDeadAdds_never(s, aliveAddIds) == s

\* Mutant: the records of primary entities the snapshot omits are removed too.
RemoveDeadAdds_unmentioned(s, aliveAddIds) ==
  LET data == s.lastState[1]
      gone == {eid \in DOMAIN s.entities :
                 \/ IsAddId(eid) /\ eid \notin aliveAddIds
                 \/ eid = "boss" /\ data.boss = None
                 \/ /\ eid \in CharIds
                    /\ (data.characters = None \/ eid \notin DOMAIN data.characters[1])}
  IN [s EXCEPT !.entities = [i \in (DOMAIN @) \ gone |-> @[i]],
               !.nameTexts = [i \in (DOMAIN @) \ gone |-> @[i]],
               !.hpBars = [i \in (DOMAIN @) \ gone |-> @[i]],
               !.removed = gone]

\* Mutant: only the sprite of a dead add is removed.
RemoveDeadAdds_spriteOnly(s, aliveAddIds) ==
  LET gone == {eid \in DOMAIN s.entities : IsAddId(eid) /\ eid \notin aliveAddIds} IN
  [s EXCEPT !.entities = [i \in (DOMAIN @) \ gone |-> @[i]],
            !.removed = gone]

\* "Remove sprites for dead adds": the loop over Object.keys(_entities)
RemoveDeadAdds(s, aliveAddIds) ==
  LET gone == {eid \in DOMAIN s.entities : IsAddId(eid) /\ eid \notin aliveAddIds} IN
  [s EXCEPT !.entities = [i \in (DOMAIN @) \ gone |-> @[i]],
            !.nameTexts = [i \in (DOMAIN @) \ gone |-> @[i]],
            !.hpBars = [i \in (DOMAIN @) \ gone |-> @[i]],
            !.removed = gone]

\* _onStateUpdate(data); data is an option (the frame may carry null)
_onStateUpdate(s, dataOpt) ==
  IF dataOpt = None THEN s
  ELSE
    LET data == dataOpt[1]
        s0 == [s EXCEPT !.lastState = dataOpt]
        s1 == IF data.boss # None THEN _updateEntity(s0, "boss", data.boss[1], TRUE) ELSE s0
        s2 == IF data.characters # None
              THEN UpdateCharacters(s1, data.characters[1], DOMAIN data.characters[1])
              ELSE s1
        adds == AddsOf(data)
        s3 == UpdateAdds(s2, adds, 1)
        s4 == RemoveDeadAdds(s3, AliveAddIds(adds))
        s5 == _updateAggroLine(s4, data)
        s6 == _updateCastArc(s5, data)
        s7 == _updateAllCastTexts(s6, data)
    IN IF s2.threw THEN s2
       ELSE IF s7.threw THEN s7
       ELSE _updateAiBubbles(s7, data)

\* Mutant: reset leaves the pending animation queue alone.
_onGameReset_keepsQueue(s) ==
  [s EXCEPT !.gameOverOverlays = 0,
            !.entities = EmptyMap, !.nameTexts = EmptyMap, !.hpBars = EmptyMap,
            !.aggroGfx = None, !.castGfx = None,
            !.aiBubbles = EmptyMap, !.castTexts = EmptyMap,
            !.lastState = None]

\* _onGameReset(): the tweens that are running are not stopped.
_onGameReset(s) ==
  [s EXCEPT !.gameOverOverlays = 0,
            !.entities = EmptyMap, !.nameTexts = EmptyMap, !.hpBars = EmptyMap,
            !.aggroGfx = None, !.castGfx = None,
            !.aiBubbles = EmptyMap, !.castTexts = EmptyMap,
            !.animQueue = <<>>, !.animPlaying = FALSE,
            !.lastState = None]

\* _onGameReset() as the engine sees it: the tweens in progress keep running,
\* and are from now on tweens that were started before a reset.
ResetScene(s) ==
  [_onGameReset(s) EXCEPT !.everReset = TRUE,
                          !.bubbleTweens = {[b EXCEPT !.stale = TRUE] : b \in @}]

\* _onGameOver(data): overlay, result text and message text are tracked.
_onGameOver(s) == [s EXCEPT !.gameOverOverlays = @ + 3]

\* the onComplete of the tween of _showAiBubble
bubbleTweenComplete(s, b) ==
  [s EXCEPT !.bubbleTweens = @ \ {b},
            !.aiBubbles = IF b.id \in DOMAIN @ THEN Without(@, b.id) ELSE @]

(***************************************************************************)
(* BattleScene (V5): the animation sequencer.                              *)
(* A queued command is [n, cmd]: n numbers the commands in arrival order.  *)
(* A choreography in progress is [n, cmd, left, loose]: left tween         *)
(* completions are still to come before its completion continuation is     *)
(* called, loose further tweens of it run without being waited for.        *)
(***************************************************************************)
Cmd(type, src, tgt, value) ==
  [anim_type |-> type, source_id |-> src, target_id |-> tgt, value |-> value,
   phase |-> None]

BlizzardCount == 15
PoisonCount == 5
DeathParticles == 8

\* if (anim.value): present and not 0
Truthy(v) == v # None /\ v[1] # 0

\* _showDamageNumber(entityId, value, isHeal)
_showDamageNumber(s, entityId, value, isHeal) ==
  IF _getEntityPos(s, entityId) = None THEN s
  ELSE [s EXCEPT !.lastDmg =
          Some([id |-> entityId[1], sign |-> IF isHeal THEN "+" ELSE "-",
                value |-> IF value = None THEN 0
                          ELSE IF value[1] < 0 THEN -value[1] ELSE value[1]])]

StartTweens(s, anim, left, loose) ==
  [s EXCEPT !.choreos = @ \cup {[n |-> anim.n, cmd |-> anim.cmd,
                                 left |-> left, loose |-> loose]}]

RECURSIVE _processAnimQueue(_)
RECURSIVE PlayAnim(_, _)

\* Mutant: the last command of the queue is played first.
TakeNext_last(q) == [anim |-> q[Len(q)], rest |-> SubSeq(q, 1, Len(q) - 1)]

\* this._animQueue.shift()
TakeNext(q) == [anim |-> Head(q), rest |-> Tail(q)]

\* Mutant: the completion continuation does not restart the drain.
done_noDrain(s, n) ==
  [s EXCEPT !.animPlaying = FALSE, !.doneLog = Append(@, n)]

\* the completion continuation "done" of command n
done(s, n) ==
  _processAnimQueue([s EXCEPT !.animPlaying = FALSE,
                              !.doneLog = Append(@, n)])

\* Mutant: a choreography that finds no position returns without calling done.
skip_noDone(s, n) == s

\* "if (!from || !to) { done(); return; }": a choreography that cannot
\* resolve a position it needs completes at once
skip(s, n) == done(s, n)

\* Mutant: a command of an unknown type is dropped without calling done.
defaultCase_noDone(s, n) == s

\* "default: done();" of the switch of _processAnimQueue
defaultCase(s, n) == done(s, n)

\* the switch of _processAnimQueue with the choreographies it calls, up to
\* the point where each has started its tweens or called done()
PlayAnim(s, anim) ==
  LET c == anim.cmd
      t == c.anim_type[1]
      from == _getEntityPos(s, c.source_id)
      to == _getEntityPos(s, c.target_id)
  IN
  CASE t \in {"fireball", "arrow"} ->
         IF from = None \/ to = None THEN skip(s, anim.n)
         ELSE StartTweens(s, anim, 1, 0)
    [] t = "heal" ->
         IF to = None THEN skip(s, anim.n) ELSE StartTweens(s, anim, 1, 0)
    [] t = "blizzard" -> StartTweens(s, anim, BlizzardCount, 0)
    [] t = "backstab" ->
         IF c.source_id = None \/ c.source_id[1] \notin DOMAIN s.entities \/ to = None
         THEN skip(s, anim.n)
         ELSE StartTweens(s, anim, 2, 0)
    [] t = "taunt" ->
         IF from = None THEN skip(s, anim.n) ELSE StartTweens(s, anim, 1, 0)
    [] t = "boss_attack" ->
         IF _getEntityPos(s, Some("boss")) = None \/ to = None THEN skip(s, anim.n)
         ELSE StartTweens(s, anim, 1, 0)
    [] t = "damage" ->
         done(_showDamageNumber(s, c.target_id, c.value, FALSE), anim.n)
    [] t = "heal_number" ->
         done(_showDamageNumber(s, c.target_id, c.value, TRUE), anim.n)
    [] t = "phase_change" -> StartTweens(s, anim, 1, 0)
    [] t = "death" ->
         IF c.target_id = None \/ c.target_id[1] \notin DOMAIN s.entities
         THEN skip(s, anim.n)
         ELSE StartTweens([s EXCEPT !.entities[c.target_id[1]].tint = "grey"],
                          anim, 1, DeathParticles + 1)
    [] t = "poison" ->
         IF to = None THEN skip(s, anim.n) ELSE StartTweens(s, anim, PoisonCount, 0)
    [] t = "shield" ->
         IF _getEntityPos(s, IF c.source_id # None THEN c.source_id ELSE c.target_id) = None
         THEN skip(s, anim.n)
         ELSE StartTweens(s, anim, 1, 0)
    [] OTHER -> defaultCase(s, anim.n)

_processAnimQueue(s) ==
  IF s.animPlaying \/ Len(s.animQueue) = 0 THEN s
  ELSE LET nx == TakeNext(s.animQueue)
       IN PlayAnim([s EXCEPT !.animPlaying = TRUE,
                             !.animQueue = nx.rest,
                             !.startLog = Append(@, nx.anim.n)],
                   nx.anim)

\* _onAnimation(data); data is an option (the frame may carry null)
_onAnimation(s, dataOpt) ==
  IF dataOpt = None \/ dataOpt[1].anim_type = None \/ dataOpt[1].anim_type[1] = "" THEN s
  ELSE LET n == s.enqCount + 1 IN
       _processAnimQueue([s EXCEPT !.animQueue = Append(@, [n |-> n, cmd |-> dataOpt[1]]),
                                   !.enqCount = n,
                                   !.doneAtEnq = Append(@, Len(s.doneLog))])

\* the tweens whose completion a choreography counts or chains before done()
TweenCount(t) ==
  IF t = "blizzard" THEN BlizzardCount
  ELSE IF t = "poison" THEN PoisonCount
  ELSE IF t = "backstab" THEN 2
  ELSE 1

\* Mutant: the completion fires on every particle instead of on the last.
allCompleted_any(completed, count) == completed >= 1

\* "completed++; if (completed >= count)" of the particle choreographies
allCompleted(completed, count) == completed >= count

\* onComplete of a tween the choreography waits for
tweenComplete(s, ch) ==
  LET c == ch.cmd
      t == c.anim_type[1]
      others == s.choreos \ {ch}
      left == ch.left - 1
      fin == IF t \in {"blizzard", "poison"}
             THEN allCompleted(TweenCount(t) - left, TweenCount(t))
             ELSE left = 0
      \* what the onComplete does before it calls done(), or instead of it
      dmg == IF Truthy(c.value)
             THEN _showDamageNumber(s, c.target_id, c.value, t = "heal") ELSE s
      s1 == IF t \in {"fireball", "arrow", "boss_attack", "heal"} THEN dmg
            ELSE IF t = "poison" /\ fin THEN dmg
            ELSE IF t = "backstab" /\ left = 1 THEN dmg
            ELSE s
      \* the first backstab tween starts the slash tween and the return tween
      loose == IF t = "backstab" /\ left = 1 THEN ch.loose + 1 ELSE ch.loose
      rest == IF left = 0 /\ loose = 0 THEN others
              ELSE others \cup {[ch EXCEPT !.left = left, !.loose = loose]}
      s2 == [s1 EXCEPT !.choreos = rest]
  IN IF fin THEN done(s2, ch.n) ELSE s2

\* onComplete of a tween nothing waits for (death particles, skull, slash)
looseTweenComplete(s, ch) ==
  LET others == s.choreos \ {ch} IN
  [s EXCEPT !.choreos = IF ch.left = 0 /\ ch.loose = 1 THEN others
                        ELSE others \cup {[ch EXCEPT !.loose = @ - 1]}]

(***************************************************************************)
(* BattleScene (V5): actions.                                              *)
(***************************************************************************)
CmdPhase == Cmd(Some("phase_change"), None, None, None)
CmdFireball == Cmd(Some("fireball"), Some("boss"), Some("tank"), Some(12))
CmdDamage == Cmd(Some("damage"), None, Some("tank"), Some(5))
CmdUnknown == Cmd(Some("dance"), None, None, None)
CmdNoType == Cmd(None, None, Some("tank"), None)

\* Commands that carry an id no entity has: as the target of a fireball, and
\* as the source of a heal (whose choreography looks at the target only).
CmdFireballGhost == Cmd(Some("fireball"), Some("boss"), Some("ghost"), Some(12))
CmdHealGhost == Cmd(Some("heal"), Some("ghost"), Some("tank"), Some(9))

\* Commands whose choreography has several tweens.
CmdBlizzard == Cmd(Some("blizzard"), Some("healer"), None, Some(8))
CmdPoison == Cmd(Some("poison"), None, Some("tank"), Some(3))
CmdDeath == Cmd(Some("death"), None, Some("add_0"), None)
CmdBackstab == Cmd(Some("backstab"), Some("healer"), Some("boss"), Some(7))

ChoreographyCommands == {Some(CmdBlizzard), Some(CmdPoison), Some(CmdDeath),
                         Some(CmdBackstab)}

\* The payloads of the animation frames of the model.
Commands == {Some(CmdPhase), Some(CmdFireball), Some(CmdDamage),
             Some(CmdUnknown), Some(CmdNoType), None,
             Some(CmdFireballGhost), Some(CmdHealGhost)}

SetSceneVars(s, op) ==
  /\ _entities' = s.entities
  /\ _hpBars' = s.hpBars
  /\ _nameTexts' = s.nameTexts
  /\ _lastState' = s.lastState
  /\ _animQueue' = s.animQueue
  /\ _animPlaying' = s.animPlaying
  /\ _aiBubbles' = s.aiBubbles
  /\ _castTexts' = s.castTexts
  /\ _aggroGfx' = s.aggroGfx
  /\ _castGfx' = s.castGfx
  /\ _gameOverOverlays' = s.gameOverOverlays
  /\ choreos' = s.choreos
  /\ bubbleTweens' = s.bubbleTweens
  /\ now' = s.now
  /\ bubbleSeq' = s.bubbleSeq
  /\ enqCount' = s.enqCount
  /\ startLog' = s.startLog
  /\ doneLog' = s.doneLog
  /\ doneAtEnq' = s.doneAtEnq
  /\ everReset' = s.everReset
  /\ lastDmg' = s.lastDmg
  /\ sceneOp' = op

\* a callback of the scene: the transport is left alone
SetScene(s, op) == SetSceneVars(s, op) /\ UNCHANGED wsVars

InitScene ==
  /\ _entities = EmptyMap
  /\ _hpBars = EmptyMap
  /\ _nameTexts = EmptyMap
  /\ _lastState = None
  /\ _animQueue = <<>>
  /\ _animPlaying = FALSE
  /\ _aiBubbles = EmptyMap
  /\ _castTexts = EmptyMap
  /\ _aggroGfx = None
  /\ _castGfx = None
  /\ _gameOverOverlays = 0
  /\ choreos = {}
  /\ bubbleTweens = {}
  /\ now = NowStart
  /\ sceneOp = [op |-> "init"]
  /\ bubbleSeq = 0
  /\ enqCount = 0
  /\ startLog = <<>>
  /\ doneLog = <<>>
  /\ doneAtEnq = <<>>
  /\ everReset = FALSE
  /\ lastDmg = None

\* a state_update frame is dispatched to the scene
StateUpdate(dataOpt) ==
  LET s == _onStateUpdate(Scene, dataOpt) IN
  /\ s.bubbleSeq <= MaxBubbles
  /\ SetScene(s, IF dataOpt = None THEN [op |-> "state_update_null"]
                 ELSE [op |-> "state_update", removed |-> s.removed,
                       repeated |-> (sceneOp.op = "state_update" /\ _lastState = dataOpt),
                       threw |-> s.threw])

\* a game_reset event is dispatched to the scene
GameReset ==
  SetScene(ResetScene(Scene),
           [op |-> "game_reset", entities |-> Cardinality(DOMAIN _entities),
            queued |-> Len(_animQueue),
            inflight |-> Cardinality({c \in choreos : c.left > 0})])

\* a game_over event is dispatched to the scene
GameOver ==
  /\ _gameOverOverlays < 3 * MaxGameOvers
  /\ SetScene(_onGameOver(Scene), [op |-> "game_over"])

\* an animation event is dispatched to the scene
Animation(dataOpt) ==
  /\ enqCount < MaxCmds
  /\ SetScene(_onAnimation(Scene, dataOpt), [op |-> "animation", cmd |-> dataOpt])

\* an animation event with a several-tween command is dispatched to the scene
Play(dataOpt) ==
  /\ enqCount < MaxPlays
  /\ SetScene(_onAnimation(Scene, dataOpt), [op |-> "animation", cmd |-> dataOpt])

\* Tweens started by the same call complete in the order of their end times
\* (delay + duration), and in the order they were added when these are equal.
\*   backstab: the slash (200 ms) ends before the return tween (100 + 200 ms)
\*   death: the 8 particles (500 ms, added first) end before the tilt (500 ms)
TweenDue(ch) ==
  /\ ch.left > 0
  /\ (ch.cmd.anim_type[1] = "backstab" /\ ch.left = 1) => ch.loose = 0
  /\ ch.cmd.anim_type[1] = "death" => ch.loose <= 1

\*   death: the skull (1200 ms) ends after the tilt (500 ms)
LooseTweenDue(ch) ==
  /\ ch.loose > 0
  /\ (ch.cmd.anim_type[1] = "death" /\ ch.loose = 1) => ch.left = 0

\* a tween that a choreography waits for completes
TweenCompletes ==
  \E ch \in choreos :
    /\ TweenDue(ch)
    /\ LET s == tweenComplete(Scene, ch) IN
       SetScene(s, [op |-> "tween", type |-> ch.cmd.anim_type[1],
                    fired |-> Len(s.doneLog) > Len(doneLog),
                    \* queued commands that this step started and completed
                    skipped |-> {e.cmd : e \in
                                  {_animQueue[i] : i \in
                                     {j \in DOMAIN _animQueue :
                                        \E k \in DOMAIN s.doneLog :
                                           /\ k > Len(doneLog)
                                           /\ s.doneLog[k] = _animQueue[j].n}}}])

\* a tween that no choreography waits for completes
LooseTweenCompletes ==
  \E ch \in choreos :
    /\ LooseTweenDue(ch)
    /\ SetScene(looseTweenComplete(Scene, ch), [op |-> "loose_tween"])

\* the tween of an AI bubble completes
BubbleTweenCompletes ==
  \E b \in bubbleTweens : SetScene(bubbleTweenComplete(Scene, b), [op |-> "bubble_tween"])

\* time passes
Tick ==
  /\ now < MaxNow
  /\ SetScene([Scene EXCEPT !.now = @ + 1], sceneOp)

(***************************************************************************)
(* GameWS and BattleScene together: frames of the connection are published *)
(* to the callbacks the scene subscribed in create().                      *)
(***************************************************************************)

\* the callbacks BattleScene.create subscribes
CallScene(s, callback, data) ==
  CASE callback = "_onStateUpdate" -> _onStateUpdate(s, data)
    [] callback = "_onAnimation" -> _onAnimation(s, data)
    [] callback = "_onGameOver" -> _onGameOver(s)
    [] callback = "_onGameReset" -> ResetScene(s)

SceneCallbacks == {"_onStateUpdate", "_onAnimation", "_onGameOver", "_onGameReset"}

\* what the callbacks that _emit called did to the scene, in the order of
\* the calls, from call i
RECURSIVE Publish(_, _, _)
Publish(s, calls, i) ==
  IF i > Len(calls) THEN s
  ELSE Publish(IF calls[i].callback \in SceneCallbacks
               THEN CallScene(s, calls[i].callback, calls[i].data) ELSE s,
               calls, i + 1)

\* BattleScene.create(): the four subscriptions, then GameWS.connect()
create(t) ==
  connect(on(on(on(on(t, "state_update", "_onStateUpdate"),
                   "animation", "_onAnimation"),
                "game_over", "_onGameOver"),
             "game_reset", "_onGameReset"))

\* Phaser creates the scene once, when BootScene starts it.
CreateScene ==
  /\ DOMAIN _listeners = {}
  /\ SetWS(create(WS), "create")
  /\ UNCHANGED sceneVars

\* The frames the server sends in the model.
FrameStateUpdate == Frame("object", Some("state_update"), Some(SnapFull))
FrameBossOnly == Frame("object", Some("state_update"), Some(SnapBossOnly))
FrameAnimation == Frame("object", Some("animation"), Some(CmdFireball))
FrameGameOver == Frame("object", Some("game_over"), Some([result |-> "victory"]))
FrameGameReset == Frame("object", Some("game_reset"), None)
FrameChat == Frame("object", Some("chat"), Some([text |-> "hello"]))
FrameNoType == Frame("object", None, None)
FrameGarbage == Frame("garbage", None, None)
FrameNull == Frame("null", None, None)
FrameScalar == Frame("scalar", None, None)

Frames == {FrameStateUpdate, FrameBossOnly, FrameAnimation, FrameGameOver, FrameGameReset,
           FrameChat, FrameNoType, FrameGarbage, FrameNull, FrameScalar}

\* A message event of the current socket: the handler runs, and with it the
\* callbacks of the events it publishes.
FrameReceived(f) ==
  /\ _ws = "OPEN"
  /\ LET t == onmessage(WS, f)
         s == Publish(Scene, t.calls, 1)
     IN /\ s.bubbleSeq <= MaxBubbles
        /\ s.enqCount <= MaxCmds
        /\ s.gameOverOverlays <= 3 * MaxGameOvers
        /\ SetWS(t, "message")
        /\ SetSceneVars(s, [op |-> "frame", frame |-> f])

\* the reconciler: snapshots, resets, the clock and the AI-bubble tweens
NextReconciler ==
  \/ \E d \in {Some(x) : x \in Snapshots} \cup {None} : StateUpdate(d)
  \/ GameReset
  \/ GameOver
  \/ BubbleTweenCompletes
  \/ Tick

\* the reconciler fed snapshots with missing fields among others
NextMalformed ==
  \/ \E d \in {Some(x) : x \in MalformedSnapshots \cup
                                {SnapFull, SnapAddDies, SnapCasting, EmptySnapshot}}
             \cup {None} : StateUpdate(d)
  \/ GameReset
  \/ BubbleTweenCompletes

\* The snapshots of the sequencer's runs: they decide which ids of a command
\* resolve to a position.
SequencerSnapshots == {Some(SnapFull)}

\* the sequencer: commands, tween completions, resets
NextSequencer ==
  \/ \E c \in Commands : Animation(c)
  \/ TweenCompletes
  \/ GameReset
  \/ \E d \in SequencerSnapshots : StateUpdate(d)

\* the choreographies: commands with several tweens, no reset
NextChoreography ==
  \/ \E c \in ChoreographyCommands : Play(c)
  \/ TweenCompletes
  \/ LooseTweenCompletes
  \/ \E d \in SequencerSnapshots : StateUpdate(d)

(***************************************************************************)
(* Specifications.                                                         *)
(***************************************************************************)
vars == <<wsVars, sceneVars>>

\* the transport's callbacks, the scene left alone
ConnectCalled == Connect /\ UNCHANGED sceneVars
SocketOpens == SocketOpen /\ UNCHANGED sceneVars
SocketStartsClosing == SocketClosing /\ UNCHANGED sceneVars
SocketCloses == (\E e \in BOOLEAN : SocketClose(e)) /\ UNCHANGED sceneVars
StaleSocketCloses == StaleClose /\ UNCHANGED sceneVars
ReconnectTimerFires == TimerFires /\ UNCHANGED sceneVars
SendCalled == Send /\ UNCHANGED sceneVars

\* The event type page scripts subscribe to in the model.
BusEvents == {"open"}

OnCalled ==
  (\E e \in BusEvents, cb \in PageCallbacks : On(e, cb)) /\ UNCHANGED sceneVars
OffCalled ==
  (\E e \in BusEvents, cb \in PageCallbacks : Off(e, cb)) /\ UNCHANGED sceneVars

\* the transport with page scripts subscribing to and unsubscribing from it
NextBus ==
  \/ OnCalled
  \/ OffCalled
  \/ ConnectCalled
  \/ SocketOpens
  \/ SocketCloses
  \/ ReconnectTimerFires

NextTransport ==
  \/ ConnectCalled
  \/ SocketOpens
  \/ SocketStartsClosing
  \/ SocketCloses
  \/ StaleSocketCloses
  \/ ReconnectTimerFires
  \/ SendCalled

\* the transport with the scene subscribed to it
NextDispatch ==
  \/ CreateScene
  \/ SocketOpens
  \/ SocketCloses
  \/ ReconnectTimerFires
  \/ \E f \in Frames : FrameReceived(f)

Init == InitWS /\ InitScene

\* the transport alone
SpecWS == Init /\ [][NextTransport]_vars

\* Timers that are pending do fire (the browser's event loop).
FairSpecWS == SpecWS /\ WF_vars(ReconnectTimerFires)

\* the event bus of the transport
SpecBus == Init /\ [][NextBus]_vars

\* the transport publishing the frames of the connection to the scene
SpecDispatch == Init /\ [][NextDispatch]_vars

\* the scene's reconciler, fed events directly
SpecReconciler == Init /\ [][NextReconciler]_vars

\* the scene's reconciler, fed snapshots with missing fields
SpecMalformed == Init /\ [][NextMalformed]_vars

\* the scene's animation sequencer, fed events directly
SpecSequencer == Init /\ [][NextSequencer]_vars

\* the choreographies of the sequencer, fed events directly
SpecChoreography == Init /\ [][NextChoreography]_vars

\* Every tween that was started completes (the engine's update loop).
FairSpecChoreography ==
  SpecChoreography /\ WF_vars(TweenCompletes) /\ WF_vars(LooseTweenCompletes)

(***************************************************************************)
(* Claims about the animation sequencer and reset.                         *)
(***************************************************************************)

\* choreographies that were started and whose completion has not fired yet
InFlight == {c \in choreos : c.left > 0}

\* C1: in every reachable state at most one choreography of a queued command
\* is in flight, under any interleaving of enqueue, completion and reset.
C1_OneChoreographyInFlight == Cardinality(InFlight) <= 1

\* C2: without a reset, choreographies are started in arrival order, and each
\* is started only after the completion of the one before it has fired.
C2_FifoOrder ==
  ~everReset =>
     /\ \A i \in 1..Len(startLog) : startLog[i] = i
     /\ Len(doneLog) <= Len(startLog)
     /\ \A i \in 1..Len(doneLog) : doneLog[i] = startLog[i]
     /\ Len(startLog) <= Len(doneLog) + 1

\* C2 witness: three commands arrived before any completed, and the third
\* has been started.
C2_Witness ==
  /\ ~everReset
  /\ Len(doneAtEnq) >= 3 /\ doneAtEnq[3] = 0
  /\ Len(startLog) = 3 /\ Len(doneLog) >= 2

\* C3: right after reset the registry maps are empty, the animation queue is
\* empty and the sequencer is idle, also when a choreography was in flight.
C3_ResetClearsEverything ==
  sceneOp.op = "game_reset" =>
     /\ DOMAIN _entities = {} /\ DOMAIN _hpBars = {} /\ DOMAIN _nameTexts = {}
     /\ Len(_animQueue) = 0
     /\ ~_animPlaying

\* C3 witness: reset ran with entities registered, commands queued and a
\* choreography in flight.
C3_Witness ==
  /\ sceneOp.op = "game_reset"
  /\ sceneOp.entities > 0 /\ sceneOp.queued > 0 /\ sceneOp.inflight > 0

(***************************************************************************)
(* Claims about the state reconciler.                                      *)
(***************************************************************************)

(***************************************************************************)
(* Claims about the choreographies.                                        *)
(***************************************************************************)

\* the elements of a log
Range(log) == {log[i] : i \in DOMAIN log}

\* commands whose choreography is started by this step
StartedNow == {n \in 1..Len(startLog') : n > Len(startLog)}

\* an id the command carries resolves to no position
HasUnresolvedId(s, c) ==
  \/ c.source_id # None /\ _getEntityPos(s, c.source_id) = None
  \/ c.target_id # None /\ _getEntityPos(s, c.target_id) = None

\* a position the command's choreography places its effect by is not resolved
NeedsUnresolved(s, c) ==
  LET t == c.anim_type[1]
      src == _getEntityPos(s, c.source_id)
      tgt == _getEntityPos(s, c.target_id)
      sprite(id) == id # None /\ id[1] \in DOMAIN s.entities
  IN \/ t \in {"fireball", "arrow"} /\ (src = None \/ tgt = None)
     \/ t \in {"heal", "poison"} /\ tgt = None
     \/ t = "taunt" /\ src = None
     \/ t = "boss_attack" /\ (_getEntityPos(s, Some("boss")) = None \/ tgt = None)
     \/ t = "shield" /\ (IF c.source_id # None THEN src ELSE tgt) = None
     \/ t = "backstab" /\ (~sprite(c.source_id) \/ tgt = None)
     \/ t = "death" /\ ~sprite(c.target_id)

\* the completion of command n fired in this step and the drain went on
SkippedNow(n) ==
  /\ n \in Range(doneLog')
  /\ Len(_animQueue') > 0 => startLog'[Len(startLog')] > n

\* the command numbered n, which is queued or arrives in this step
CmdOf(n) ==
  IF \E i \in DOMAIN _animQueue : _animQueue[i].n = n
  THEN _animQueue[CHOOSE i \in DOMAIN _animQueue : _animQueue[i].n = n].cmd
  ELSE sceneOp'.cmd[1]

C12_DoneExactlyOnce ==
  /\ [](\A i, j \in DOMAIN doneLog : i # j => doneLog[i] # doneLog[j])
  /\ []<>(Range(startLog) = Range(doneLog))

\* C12 witness: the last of the 15 particles of a blizzard completed and the
\* completion of the blizzard fired, as the second completion of the run.
C12_Witness ==
  /\ sceneOp.op = "tween" /\ sceneOp.type = "blizzard" /\ sceneOp.fired
  /\ Len(doneLog) = 2

\* C13: no choreography has a tween running once its completion has fired, so
\* every tween that runs belongs to the command started last.
C13_CompositeWaitsForSubEffects ==
  \A ch \in choreos : ch.n \notin Range(doneLog)

\* C14: without a reset and with every tween completing, every command that
\* was accepted is started, and a sequencer that is playing or has commands
\* queued becomes idle with an empty queue.
C14_QueueDrains ==
  []<>(/\ \A n \in 1..enqCount : n \in Range(startLog)
       /\ ~_animPlaying /\ Len(_animQueue) = 0)

\* C14 witness: two commands arrived before any completed; all have
\* completed and the sequencer is idle with an empty queue.
C14_Witness ==
  /\ enqCount >= 2 /\ doneAtEnq[2] = 0
  /\ Len(doneLog) = enqCount
  /\ ~_animPlaying /\ Len(_animQueue) = 0


\* the ids of the adds a snapshot lists with alive true
ListedAlive(data) ==
  LET bossAdds == IF data.boss # None /\ data.boss[1].adds # None
                  THEN data.boss[1].adds[1] ELSE <<>>
      topAdds == IF data.adds # None THEN data.adds[1] ELSE <<>>
      all == bossAdds \o topAdds
  IN {all[i].id[1] : i \in {j \in 1..Len(all) : all[j].alive = Some(TRUE)}}

TransientIn(m) == {id \in DOMAIN m : IsAddId(id)}
PrimaryIn(m) == {id \in DOMAIN m : ~IsAddId(id)}

\* C8: right after a non-null snapshot is reconciled, the transient records
\* of the registry are exactly the adds the snapshot lists as alive.
C8_TransientsTrackAlive ==
  sceneOp.op = "state_update" =>
     /\ TransientIn(_entities) = ListedAlive(_lastState[1])
     /\ TransientIn(_hpBars) = ListedAlive(_lastState[1])
     /\ TransientIn(_nameTexts) = ListedAlive(_lastState[1])

\* C8 witness: a reconcile destroyed one transient and another one survives.
C8_Witness ==
  /\ sceneOp.op = "state_update"
  /\ sceneOp.removed # {}
  /\ TransientIn(_entities) # {}

\* the snapshot has an entry for the primary id
Mentions(data, id) ==
  \/ id = "boss" /\ data.boss # None
  \/ data.characters # None /\ id \in DOMAIN data.characters[1]

\* C9: only reset removes a primary record, and a reconcile whose snapshot
\* omits a primary entity leaves that entity's record as it was.
C9_PrimaryPersistence ==
  [][ /\ sceneOp'.op # "game_reset" =>
           /\ PrimaryIn(_entities) \subseteq DOMAIN _entities'
           /\ PrimaryIn(_hpBars) \subseteq DOMAIN _hpBars'
           /\ PrimaryIn(_nameTexts) \subseteq DOMAIN _nameTexts'
      /\ sceneOp'.op = "state_update" =>
           \A id \in PrimaryIn(_entities) :
              ~Mentions(_lastState'[1], id) =>
                 /\ _entities'[id] = _entities[id]
                 /\ _hpBars'[id] = _hpBars[id]
                 /\ _nameTexts'[id] = _nameTexts[id] ]_vars

\* C9 witness: a snapshot without boss and healer was reconciled and both
\* records are still there.
C9_Witness ==
  /\ sceneOp.op = "state_update"
  /\ _lastState[1].boss = None /\ ~Mentions(_lastState[1], "healer")
  /\ {"boss", "healer"} \subseteq DOMAIN _entities

\* the registry and the views derived from the snapshot
View == <<_entities, _hpBars, _nameTexts, _castTexts, _aiBubbles, _aggroGfx, _castGfx>>

\* C10: reconciling the same snapshot a second time in succession leaves the
\* registry and the derived views as the first call left them.
C10_ReconcileIdempotent ==
  [][ (sceneOp'.op = "state_update" /\ sceneOp'.repeated) => View' = View ]_vars

\* C10 witness: a snapshot with entities, cast text and AI bubbles was
\* reconciled twice in succession.
C10_Witness ==
  /\ sceneOp.op = "state_update" /\ sceneOp.repeated
  /\ DOMAIN _entities # {} /\ DOMAIN _castTexts # {} /\ DOMAIN _aiBubbles # {}

(***************************************************************************)
(* Claims about the reconnecting transport.                                *)
(***************************************************************************)

\* C4: a successful open resets the backoff delay to 1000 ms, and the
\* reconnect scheduled by the first connection loss after an open uses that
\* initial delay, whatever connect() calls and timer firings come between.
C4_OpenResetsBackoff ==
  /\ (wsOp = "open" => _reconnectDelay = InitialReconnectDelay)
  /\ (lastSched.afterOpen => lastSched.delay = InitialReconnectDelay)

C6_OneReconnectTimer ==
  [][ /\ Cardinality(timers') <= 1
      /\ (wsOp' \in CloseOps /\ _reconnectTimer # 0)
            => /\ timers' = timers
               /\ _reconnectTimer' = _reconnectTimer
               /\ _reconnectDelay' = _reconnectDelay ]_vars

\* C6 witness: a close event found a timer pending.
C6_Witness ==
  wsOp \in CloseOps /\ schedNoop /\ Cardinality(timers) = 1

\* C7: once connect() has been called the transport never gives up: a closed
\* socket always has a reconnect timer pending, and (timers firing) a closed
\* socket always leads to a new connection attempt.
C7_NeverGivesUp ==
  /\ [](_ws = "CLOSED" => (_reconnectTimer # 0 /\ timers # {}))
  /\ ((_ws = "CLOSED") ~> (_ws = "CONNECTING"))

\* C7 witness: after repeated failures the timer has just made a new attempt.
C7_Witness ==
  wsOp = "timer" /\ _ws = "CONNECTING" /\ schedCount >= 3 /\ ~everOpened

\* C18: a connection loss, with or without the socket's error event before
\* its close event, publishes 'close' once and leaves exactly one reconnect
\* timer outstanding; a timer it starts runs for the current backoff delay.
C18_LossEmitsCloseAndSchedules ==
  [][ wsOp' \in CloseOps =>
        /\ wsEvents' = <<[type |-> "close", data |-> None]>>
        /\ Cardinality(timers') = 1
        /\ _reconnectTimer' # 0
        /\ timers = {} => \A tm \in timers' : tm.delay = _reconnectDelay ]_vars

\* C18 witness: a loss signalled by the error event scheduled a reconnect
\* with a backoff delay that had grown.
C18_Witness ==
  /\ wsOp = "error_close" /\ ~schedNoop
  /\ \E tm \in timers : tm.delay = 4000

\* C20: a call of send() hands the frame to the socket exactly when the
\* current socket is OPEN, raises nothing, and no other step transmits.
C20_SendOnlyWhileOpen ==
  [][ /\ sendCalls' # sendCalls =>
           /\ sent' = IF _ws = "OPEN"
                      THEN Append(sent, [type |-> "god_command",
                                         content |-> sendCalls + 1])
                      ELSE sent
           /\ ~wsThrew'
      /\ sendCalls' = sendCalls => sent' = sent ]_vars

\* C20 witness: the first frame was dropped while the socket was not open,
\* the socket opened later, and only the second frame was transmitted.
C20_Witness ==
  /\ wsOp = "send" /\ sendCalls = 2
  /\ Len(sent) = 1 /\ sent[1].content = 2

(***************************************************************************)
(* Claims about the dispatch of frames.                                    *)
(***************************************************************************)

\* the frame whose message event ran last
LastFrame == sceneOp.frame

\* C15: after a game_reset frame has been dispatched the registry has no
\* entities, the animation queue is empty and the sequencer is idle.
C15_ResetFrameResets ==
  (sceneOp.op = "frame" /\ LastFrame.type = Some("game_reset")) =>
     /\ DOMAIN _entities = {} /\ DOMAIN _hpBars = {} /\ DOMAIN _nameTexts = {}
     /\ Len(_animQueue) = 0
     /\ ~_animPlaying

\* C16: an animation frame whose data carries an anim_type is published, and
\* its command is started at once if the sequencer is idle, appended to the
\* back of the queue otherwise.
C16_AnimationFrameEnqueued ==
  [][ (/\ sceneOp'.op = "frame"
       /\ sceneOp'.frame.type = Some("animation")
       /\ sceneOp'.frame.data # None
       /\ sceneOp'.frame.data[1].anim_type \notin {None, Some("")}) =>
        /\ wsEvents' = <<[type |-> "animation", data |-> sceneOp'.frame.data]>>
        /\ enqCount' = enqCount + 1
        /\ IF _animPlaying
           THEN _animQueue' = Append(_animQueue, [n |-> enqCount + 1,
                                                  cmd |-> sceneOp'.frame.data[1]])
           ELSE startLog' = Append(startLog, enqCount + 1) ]_vars

\* C17: every frame that parses to an object with a type is published under
\* that type with its data, whatever the type.
C17_EveryTypePublished ==
  (sceneOp.op = "frame" /\ LastFrame.kind = "object" /\ LastFrame.type # None) =>
     wsEvents = <<[type |-> LastFrame.type[1], data |-> LastFrame.data]>>

\* C19: a frame that does not parse to the envelope publishes nothing, raises
\* nothing and leaves the transport and the registry as they were.
C19_MalformedFrameDropped ==
  [][ (/\ sceneOp'.op = "frame"
       /\ (sceneOp'.frame.kind # "object" \/ sceneOp'.frame.type = None)) =>
        /\ wsEvents' = <<>>
        /\ ~wsThrew'
        /\ <<_ws, _reconnectTimer, timers, _reconnectDelay, _connected,
             _listeners, sent>>' =
           <<_ws, _reconnectTimer, timers, _reconnectDelay, _connected,
             _listeners, sent>>
        /\ <<_entities, _hpBars, _nameTexts, _lastState, _animQueue,
             _animPlaying>>' =
           <<_entities, _hpBars, _nameTexts, _lastState, _animQueue,
             _animPlaying>> ]_vars

(***************************************************************************)
(* Claims about connect(), the backoff delay and the event bus.            *)
(***************************************************************************)

\* C21: connect() called while the current socket is CONNECTING or OPEN
\* creates no socket and changes nothing of the transport: the socket, the
\* backoff delay, the listeners, and the pending reconnect timer, which is
\* not cancelled.
C21_ConnectWhileLiveIsNoop ==
  [][ (wsOp' \in {"connect", "connect_live"} /\ _ws \in {"OPEN", "CONNECTING"}) =>
        <<_ws, stale, _reconnectTimer, timers, _reconnectDelay, _connected,
          _listeners, sent>>' =
        <<_ws, stale, _reconnectTimer, timers, _reconnectDelay, _connected,
          _listeners, sent>> ]_vars

\* C21 witness: connect() was called while a socket was connecting, a
\* reconnect timer was pending and a callback was subscribed.
C21_Witness ==
  /\ wsOp = "connect_live"
  /\ _ws = "CONNECTING"
  /\ _reconnectTimer # 0 /\ timers # {}
  /\ \E e \in DOMAIN _listeners : Len(_listeners[e]) > 0

\* C27: in every reachable state the backoff delay is at least the initial
\* delay and at most the maximum, which is 8 times the initial delay:
\* 1000 <= _reconnectDelay <= 8000.
C27_DelayWithinBounds ==
  /\ InitialReconnectDelay <= _reconnectDelay
  /\ _reconnectDelay <= _maxReconnectDelay
  /\ _maxReconnectDelay = 8 * InitialReconnectDelay
  /\ InitialReconnectDelay = 1000

\* C27 witness: a reconnect that was scheduled with the maximum delay has
\* fired, and the delay is still the maximum.
C27_Witness ==
  /\ wsOp = "timer"
  /\ lastSched.delay = _maxReconnectDelay
  /\ _reconnectDelay = _maxReconnectDelay
  /\ _reconnectTimer = 0

\* C26: registering a callback that is registered already changes nothing of
\* later dispatch: one _emit calls no callback twice.
C26_OnIsIdempotentAppend ==
  \A i, j \in DOMAIN wsCalls :
     i # j => wsCalls[i].callback # wsCalls[j].callback

\* C28: one _emit calls the callbacks that are registered for the type when
\* the dispatch starts, each once and in registration order, also when one
\* of them unsubscribes itself during the dispatch.
C28_EmitCallsEveryCallback ==
  [][ \A e \in DOMAIN _listeners :
        (\E i \in DOMAIN wsEvents' : wsEvents'[i].type = e) =>
           /\ Len(wsCalls') = Len(_listeners[e])
           /\ \A i \in DOMAIN wsCalls' : wsCalls'[i].callback = _listeners[e][i] ]_vars

(***************************************************************************)
(* Further claims about the sequencer and the registry.                    *)
(***************************************************************************)

\* the anim_type values the switch of _processAnimQueue has a case for
KnownAnimTypes ==
  {"fireball", "heal", "blizzard", "backstab", "taunt", "boss_attack", "arrow",
   "damage", "heal_number", "phase_change", "death", "poison", "shield"}

\* C25: a dequeued command whose anim_type has no choreography is completed
\* in the step that dequeues it, and the sequencer has then started the next
\* queued command, or is idle with an empty queue.
C25_UnknownTypeCompletesAtOnce ==
  [][\A k \in StartedNow :
       CmdOf(startLog'[k]).anim_type[1] \notin KnownAnimTypes =>
          /\ startLog'[k] \in Range(doneLog')
          /\ k = Len(startLog') => (Len(_animQueue') = 0 /\ ~_animPlaying')]_vars

\* C25 witness: the completion of a tween dequeued a command of an unknown
\* type, which completed in the same step and left the sequencer idle.
C25_Witness ==
  /\ sceneOp.op = "tween"
  /\ CmdUnknown \in sceneOp.skipped
  /\ ~_animPlaying
  /\ Len(_animQueue) = 0

\* C29: between callbacks, a non-empty animation queue implies that the
\* sequencer is playing, after any enqueue, completion and reset.
C29_PendingImpliesPlaying == Len(_animQueue) > 0 => _animPlaying

\* C29 witness: after a reset, with a choreography from before the reset
\* and one from after it still running, a command is queued.
C29_Witness ==
  /\ everReset
  /\ Len(_animQueue) > 0
  /\ _animPlaying
  /\ Cardinality(InFlight) = 2

\* C30: in every reachable state the maps _entities, _hpBars and _nameTexts
\* have the same key set.
C30_RegistryMapsAgree ==
  /\ DOMAIN _entities = DOMAIN _hpBars
  /\ DOMAIN _entities = DOMAIN _nameTexts

\* C30 witness: a reconcile destroyed the transient add_1 and left the
\* records of add_0 and of the boss.
C30_Witness ==
  /\ sceneOp.op = "state_update"
  /\ sceneOp.removed = {"add_1"}
  /\ {"add_0", "boss"} \subseteq DOMAIN _hpBars
  /\ {"add_0", "boss"} \subseteq DOMAIN _nameTexts

\* C22: a callback that was pending for an entity when a reset ran changes
\* nothing afterwards: when the tween of an AI bubble created before the
\* reset completes, the registry, the derived views and the sequencer are as
\* they were.
C22_NoResidueAcrossReset ==
  [][ (\E b \in bubbleTweens : b.stale /\ b \notin bubbleTweens') =>
         /\ View' = View
         /\ <<_animQueue, _animPlaying>>' = <<_animQueue, _animPlaying>> ]_vars

\* C23: after the frames state_update{boss:{hp:100,max_hp:100}} and
\* animation{fireball, boss -> tank, 12} the registry holds the boss at hp
\* 100, and the fireball is playing or has completed with the damage number
\* 12 shown for the tank and the sequencer idle.
C23_FireballScenario ==
  (/\ sceneOp.op = "frame"
   /\ LastFrame = FrameAnimation
   /\ _lastState = Some(SnapBossOnly)
   /\ DOMAIN _entities \subseteq {"boss"}) =>
     /\ "boss" \in DOMAIN _entities
     /\ _hpBars["boss"].width = _hpBars["boss"].barW
     /\ \/ \E ch \in InFlight : ch.cmd = CmdFireball
        \/ /\ lastDmg = Some([id |-> "tank", sign |-> "-", value |-> 12])
           /\ ~_animPlaying

\* C24: reconciling a snapshot in which expected fields are missing throws
\* nothing, and what the snapshot does carry is applied: the boss and every
\* character it describes have a record, and the transient records are the
\* adds it lists as alive.
C24_ReconcileNeverThrows ==
  sceneOp.op = "state_update" =>
     /\ ~sceneOp.threw
     /\ LET data == _lastState[1] IN
        /\ data.boss # None => "boss" \in DOMAIN _entities
        /\ data.characters # None =>
              \A k \in DOMAIN data.characters[1] :
                 ~IsNull(data.characters[1][k]) => k \in DOMAIN _entities
        /\ TransientIn(_entities) = ListedAlive(data)
====
